---- MODULE Spec2Model ----
(***************************************************************************)
(* The toast notification store (src/src/ToastStore.js) and the channel    *)
(* selection of its renderer (ToastNotification.render), as a state        *)
(* machine over the browser's event loop: setNotification calls, timer     *)
(* tasks (setTimeout / clearTimeout) and animation frames                  *)
(* (requestAnimationFrame).                                                *)
(*                                                                         *)
(* Channels are the keys callers pass to the store: its two channel        *)
(* constants. toastStore.helloWorld, which App.jsx names, is undefined      *)
(* (the store's field is HELLO_WORLD): it is the one channel of the list    *)
(* App.jsx gives the renderer, and it never reaches the store, since a      *)
(* click on the button of App.jsx runs Button.setNotification without its   *)
(* receiver. The notification payload keeps the fields the store and the    *)
(* renderer's selection read (message, timeout, timeoutRef); textColor and  *)
(* backgroundColor are passed through untouched by the code.                *)
(***************************************************************************)
EXTENDS Integers, Sequences, FiniteSets

VARIABLES
    notifications,  \* ToastStore.notifications: channel -> stored notification
    timers,         \* the browser's active timers: handle -> [channel, deadline]
    frameQueue,     \* callbacks handed to requestAnimationFrame, oldest first
    frameBatch,     \* callbacks the running animation frame still has to run
    now,            \* the clock
    calls,          \* log of the setNotification calls; call i got timer handle i
    animationDurationField  \* ToastStore.animationDuration of this store instance

vars == <<notifications, timers, frameQueue, frameBatch, now, calls,
          animationDurationField>>

---------------------------------------------------------------------------
(* Bounds of the model *)

MaxCalls == 2
MaxTime == 1000
TimeStep == 500

---------------------------------------------------------------------------
(* Program constants *)

HELLO_WORLD == "helloWorld"
ERROR == "error"
animationDuration == 500
DismissPad == 500

\* The value undefined: what channels.find gives when nothing matches, and
\* what a read of a field the store does not have gives.
NoChannel == "undefined"

\* this.props.toastStore.helloWorld: the store has no field of that name.
helloWorld == NoChannel

Channels == {HELLO_WORLD, ERROR}

\* The object Button.setNotification passes, without its channel.
ButtonPayload == [message |-> "Hello, World!", timeout |-> 1500]

\* Payloads a caller passes: the button's, another well-formed one and a
\* malformed one (empty message, negative timeout); the store accepts any object.
Payloads ==
    { ButtonPayload,
      [message |-> "Save failed",   timeout |-> 0],
      [message |-> "",              timeout |-> -1000] }

Undefined == [message |-> "undefined", timeout |-> 0, timeoutRef |-> 0]

---------------------------------------------------------------------------
(* observable.map *)

MapHas(m, c) == c \in DOMAIN m

MapGet(m, c) == IF c \in DOMAIN m THEN m[c] ELSE Undefined

\* A set that loses the write.
MapSetDropped(m, c, n) == m

MapSet(m, c, n) == [k \in (DOMAIN m) \cup {c} |-> IF k = c THEN n ELSE m[k]]

\* A delete that keeps the key, mapped to no notification.
MapDeleteAsNull(m, c) == [k \in DOMAIN m |-> IF k = c THEN Undefined ELSE m[k]]

MapDelete(m, c) == [k \in (DOMAIN m) \ {c} |-> m[k]]

EmptyMap == [k \in {} |-> Undefined]

---------------------------------------------------------------------------
(* setTimeout / clearTimeout *)

NoTimers == [k \in {} |-> [channel |-> NoChannel, deadline |-> 0]]

\* A timer's delay is never negative: the browser clamps it to 0.
TimerDelay(ms) == IF ms < 0 THEN 0 ELSE ms

\* A setTimeout that registers no timer.
setTimeoutDropped(ts, ref, c, ms) == ts

setTimeout(ts, ref, c, ms) ==
    [k \in (DOMAIN ts) \cup {ref} |->
        IF k = ref THEN [channel |-> c, deadline |-> now + TimerDelay(ms)] ELSE ts[k]]

\* Clearing a handle that already fired or was already cleared does nothing.
clearTimeout(ts, ref) == [k \in (DOMAIN ts) \ {ref} |-> ts[k]]

---------------------------------------------------------------------------
(* The callbacks passed to animatedAction *)

SetCallback(c, n) == [op |-> "set", channel |-> c, notification |-> n]

\* by: the handle of the timer whose task built the closure.
DeleteCallback(c, ref) ==
    [op |-> "delete", channel |-> c, notification |-> Undefined, by |-> ref]

runInAction(m, f) ==
    IF f.op = "set" THEN MapSet(m, f.channel, f.notification)
                    ELSE MapDelete(m, f.channel)

\* A frame queue that runs the newest request first.
EnqueueFront(q, f) == <<f>> \o q

Enqueue(q, f) == Append(q, f)

\* The mutation applied at once, as runInAction(f) without the frame.
animatedActionSync(f) ==
    /\ notifications' = runInAction(notifications, f)
    /\ UNCHANGED frameQueue

\* requestAnimationFrame(() => runInAction(f)): f runs in a later frame.
animatedAction(f) ==
    /\ frameQueue' = Enqueue(frameQueue, f)
    /\ UNCHANGED notifications

---------------------------------------------------------------------------
(* Initial state and steps *)

Init ==
    /\ notifications = EmptyMap
    /\ timers = NoTimers
    /\ frameQueue = <<>>
    /\ frameBatch = 0
    /\ now = 0
    /\ calls = <<>>
    /\ animationDurationField = animationDuration

\* A dismissal delay that leaves out the animate-in duration.
DismissDelayUnpadded(timeout) == timeout

\* notification.timeout + 500: the delay of the dismissal timer.
DismissDelay(timeout) == timeout + DismissPad

\* ToastStore.setNotification({ channel: c, ...p })
setNotification(c, p) ==
    /\ frameBatch = 0
    /\ Len(calls) < MaxCalls
    /\ now <= MaxTime
    /\ LET ref == Len(calls) + 1
           kept == IF MapHas(notifications, c)
                   THEN clearTimeout(timers, MapGet(notifications, c).timeoutRef)
                   ELSE timers
           n == [message |-> p.message, timeout |-> p.timeout, timeoutRef |-> ref]
       IN /\ timers' = setTimeout(kept, ref, c, DismissDelay(p.timeout))
          /\ animatedAction(SetCallback(c, n))
          /\ calls' = Append(calls, [channel |-> c, message |-> p.message,
                                     timeout |-> p.timeout, at |-> now])
    /\ UNCHANGED <<frameBatch, now, animationDurationField>>

\* The timer task of handle ref runs: the arrow function of setNotification.
TimerFires(ref) ==
    /\ frameBatch = 0
    /\ ref \in DOMAIN timers
    /\ timers[ref].deadline <= now
    /\ timers' = clearTimeout(timers, ref)
    /\ animatedAction(DeleteCallback(timers[ref].channel, ref))
    /\ UNCHANGED <<frameBatch, now, calls, animationDurationField>>

\* An animation frame starts: it will run the callbacks requested so far.
BeginFrame ==
    /\ frameBatch = 0
    /\ Len(frameQueue) > 0
    /\ frameBatch' = Len(frameQueue)
    /\ UNCHANGED <<notifications, timers, frameQueue, now, calls, animationDurationField>>

\* The frame runs its next callback: () => runInAction(f).
RunCallback ==
    /\ frameBatch > 0
    /\ notifications' = runInAction(notifications, Head(frameQueue))
    /\ frameQueue' = Tail(frameQueue)
    /\ frameBatch' = frameBatch - 1
    /\ UNCHANGED <<timers, now, calls, animationDurationField>>

\* Time passes between tasks. The clock is followed while calls can still be
\* made and while a timer is still to come due.
Tick ==
    /\ frameBatch = 0
    /\ \/ now < MaxTime
       \/ \E ref \in DOMAIN timers : timers[ref].deadline > now
    /\ now' = now + TimeStep
    /\ UNCHANGED <<notifications, timers, frameQueue, frameBatch, calls,
                   animationDurationField>>

\* The Button component instance, the receiver Button.setNotification needs.
ButtonInstance == "Button"

\* The receivers an event dispatch gives a handler that render passed
\* unbound (onClick={ this.setNotification }): undefined, as React calls it,
\* or the element, as the DOM calls it.
ClickReceivers == {"undefined", "HTMLButtonElement"}

\* Button.setNotification run with receiver this. On the component instance
\* it calls the store; on any other receiver the read of this.props, or of
\* this.props.toastStore, throws TypeError before the store is reached.
ButtonSetNotification(this) ==
    IF this = ButtonInstance
    THEN setNotification(helloWorld, ButtonPayload)
    ELSE UNCHANGED vars

\* A click on the button that Button.render returns.
ButtonClick ==
    /\ frameBatch = 0
    /\ \E this \in ClickReceivers : ButtonSetNotification(this)

SomeCall == \E c \in Channels, p \in Payloads : setNotification(c, p)

SomeTimer == \E ref \in 1..MaxCalls : TimerFires(ref)

Next ==
    \/ ButtonClick
    \/ SomeCall
    \/ SomeTimer
    \/ BeginFrame
    \/ RunCallback
    \/ Tick

Spec == Init /\ [][Next]_vars

\* Timers that are due fire, requested frames run, and time passes.
FairSpec ==
    /\ Spec
    /\ WF_vars(SomeTimer)
    /\ WF_vars(BeginFrame)
    /\ WF_vars(RunCallback)
    /\ WF_vars(Tick)

---------------------------------------------------------------------------
(* ToastNotification.render: the channel it selects and what it renders *)

\* Whether the identifier toastStore is bound where render reads toastStore.ERROR:
\* render destructures this.props.toastStore without binding it, and the file
\* neither imports nor declares it.
ToastStoreInScope == FALSE

\* transitionEnterTimeout / transitionLeaveTimeout of the transition group, read
\* from the store's animationDuration.
TransitionTimeouts(duration) == [enter |-> duration, leave |-> duration]

\* The channels a list given to the renderer names: the store's, and the
\* undefined one of the list App.render passes.
ListedChannels == Channels \cup {helloWorld}

ChannelLists ==
    {<<>>} \cup {<<c>> : c \in ListedChannels}
           \cup {<<c, d>> : c \in ListedChannels, d \in ListedChannels}

\* A selection of the last listed channel that is present.
FindLast(channels, m) ==
    LET hits == {i \in 1..Len(channels) : MapHas(m, channels[i])}
    IN IF hits = {} THEN NoChannel
       ELSE channels[CHOOSE i \in hits : \A j \in hits : j <= i]

\* channels.find((channel) => notifications.has(channel))
Find(channels, m) ==
    LET hits == {i \in 1..Len(channels) : MapHas(m, channels[i])}
    IN IF hits = {} THEN NoChannel
       ELSE channels[CHOOSE i \in hits : \A j \in hits : i <= j]

\* The toasts render puts in the transition group, whether the success icon is
\* drawn, and whether render threw instead of returning.
Render(channels, m) ==
    LET channel == Find(channels, m)
        notification == MapGet(m, channel)
    IN IF notification # Undefined /\ notification.message # ""
       THEN IF ToastStoreInScope
            THEN [channel |-> channel, shown |-> <<notification.message>>,
                  icon |-> channel # ERROR, threw |-> FALSE]
            ELSE [channel |-> channel, shown |-> <<>>, icon |-> FALSE, threw |-> TRUE]
       ELSE [channel |-> channel, shown |-> <<>>, icon |-> FALSE, threw |-> FALSE]

---------------------------------------------------------------------------
(* Vocabulary of the properties *)

CallIds == 1..Len(calls)

\* The handle of the latest setNotification call on channel c (0: none yet).
LastCall(c) ==
    LET on == {k \in CallIds : calls[k].channel = c}
    IN IF on = {} THEN 0 ELSE CHOOSE k \in on : \A j \in on : j <= k

\* A later setNotification call was made on the channel of call ref.
Superseded(ref) == \E k \in CallIds : k > ref /\ calls[k].channel = calls[ref].channel

\* The notification object call ref built.
NotificationOf(ref) ==
    [message |-> calls[ref].message, timeout |-> calls[ref].timeout, timeoutRef |-> ref]

\* Positions of the installs of channel c still waiting for a frame.
PendingInstalls(c) ==
    {i \in 1..Len(frameQueue) : frameQueue[i].op = "set" /\ frameQueue[i].channel = c}

TimersIn(ts, c) == {ref \in DOMAIN ts : ts[ref].channel = c}

TimersOf(c) == TimersIn(timers, c)

\* This step is the timer task of handle ref.
FiredStep(ref) ==
    /\ ref \in DOMAIN timers
    /\ ref \notin DOMAIN timers'
    /\ frameQueue' = Append(frameQueue, DeleteCallback(timers[ref].channel, ref))

\* This step is a setNotification call.
CallStep == Len(calls') = Len(calls) + 1

\* This step takes channel c's entry out of the mapping.
RemovedStep(c) == MapHas(notifications, c) /\ ~MapHas(notifications', c)

Quiet == timers = NoTimers /\ frameQueue = <<>> /\ frameBatch = 0

---------------------------------------------------------------------------
(* Properties *)

\* Every call made so far on channel c kept the caller's contract: a non-empty
\* message and a timeout that is not negative.
WellFormedCalls(c) ==
    \A k \in CallIds :
        calls[k].channel = c => (calls[k].message # "" /\ calls[k].timeout >= 0)

\* C1: once a later setNotification call has been made on a channel, the
\* dismissal timer of the earlier call never fires, and the mapping never goes
\* back from a notification to an older one of its channel. (Stated for channels
\* whose callers kept the contract.)
SupersessionCancelsDismissal ==
    /\ [][\A ref \in DOMAIN timers :
            (WellFormedCalls(timers[ref].channel) /\ Superseded(ref))
                => ~FiredStep(ref)]_vars
    /\ [][\A c \in Channels :
            (MapHas(notifications, c) /\ MapHas(notifications', c))
                => notifications'[c].timeoutRef >= notifications[c].timeoutRef]_vars

\* The entry of channel c leaves the mapping no earlier than timeout +
\* animationDuration after the call that created it.
RemovedNoEarlierThanDeadline(c) ==
    LET ref == notifications[c].timeoutRef
    IN RemovedStep(c) => now >= calls[ref].at + calls[ref].timeout + animationDuration

\* C2: a notification that no later call on its channel superseded is not removed
\* from the mapping earlier than timeout + animationDuration after its call.
\* (Stated for channels whose callers kept the contract.)
MinimumLifetime ==
    [][\A c \in Channels :
          (/\ MapHas(notifications, c)
           /\ WellFormedCalls(c)
           /\ ~Superseded(notifications[c].timeoutRef))
              => RemovedNoEarlierThanDeadline(c)]_vars

\* C3: every channel has at most one outstanding dismissal timer.
OneTimerPerChannel == \A c \in Channels : Cardinality(TimersOf(c)) <= 1

\* C4: under fair scheduling, once the calls have stopped every channel ends up
\* absent from the mapping and stays absent: the dismissal deletes the key.
EventualDismissal == <>[](\A c \in Channels : ~MapHas(notifications, c))

\* Calls were made, every timer has fired, every frame has run, and the mapping
\* is empty again.
DismissedAndQuiet == Len(calls) = MaxCalls /\ Quiet /\ notifications = EmptyMap

\* C5 as stated: right after setNotification(channel, n) returns, the lookup of
\* the channel gives n.
ImmediateVisibility ==
    [][CallStep =>
         MapGet(notifications', calls'[Len(calls')].channel)
             = [message |-> calls'[Len(calls')].message,
                timeout |-> calls'[Len(calls')].timeout,
                timeoutRef |-> Len(calls')]]_vars

\* C5, amended: setNotification(channel, n) leaves the lookup of the channel as it
\* was and queues the install of n; right after the frame callback of that install
\* has run, the lookup of the channel gives n.
VisibleAfterCommit ==
    /\ [][CallStep =>
            LET ref == Len(calls')
                c == calls'[ref].channel
            IN /\ MapGet(notifications', c) = MapGet(notifications, c)
               /\ MapHas(notifications', c) = MapHas(notifications, c)
               /\ frameQueue'[Len(frameQueue')]
                      = [op |-> "set", channel |-> c,
                         notification |->
                            [message |-> calls'[ref].message,
                             timeout |-> calls'[ref].timeout,
                             timeoutRef |-> ref]]]_vars
    /\ [][(frameBatch > 0 /\ frameBatch' < frameBatch /\ Head(frameQueue).op = "set")
            => /\ MapHas(notifications', Head(frameQueue).channel)
               /\ MapGet(notifications', Head(frameQueue).channel)
                      = Head(frameQueue).notification]_vars

\* The install of the latest call has just been committed by a frame.
LatestCallVisible ==
    /\ calls # <<>>
    /\ MapGet(notifications, calls[Len(calls)].channel).timeoutRef = Len(calls)

\* This step acts on channel a: a setNotification call on a, the timer task of
\* one of a's timers, or the frame callback of a's install or removal.
ActsOn(a) ==
    \/ CallStep /\ calls'[Len(calls')].channel = a
    \/ \E ref \in TimersOf(a) : FiredStep(ref)
    \/ frameBatch > 0 /\ frameBatch' < frameBatch /\ Head(frameQueue).channel = a

\* A step that acts on a channel leaves every other channel's entry and timers
\* as they were.
OtherChannelsUntouched ==
    [][\A a \in Channels, b \in Channels :
          (a # b /\ ActsOn(a))
              => /\ MapHas(notifications', b) = MapHas(notifications, b)
                 /\ MapGet(notifications', b) = MapGet(notifications, b)
                 /\ TimersIn(timers', b) = TimersOf(b)
                 /\ \A ref \in TimersOf(b) : timers'[ref] = timers[ref]]_vars

\* C6: a step that acts on one channel leaves the other channels' entries and
\* timers unchanged, and each channel's notification is removed no earlier than
\* its own timeout + animationDuration deadline. (The deadline is stated for
\* channels whose callers kept the contract.)
ChannelIndependence ==
    /\ OtherChannelsUntouched
    /\ [][\A c \in Channels :
            (MapHas(notifications, c) /\ WellFormedCalls(c))
                => RemovedNoEarlierThanDeadline(c)]_vars

\* C7: the installs of a channel wait in call order, the mapping's entry is older
\* than every install still waiting, and once none is waiting the entry, if
\* present, is the notification of the channel's last call.
LastWriteWins ==
    \A c \in Channels :
        /\ \A i \in PendingInstalls(c), j \in PendingInstalls(c) :
              i < j => frameQueue[i].notification.timeoutRef
                          < frameQueue[j].notification.timeoutRef
        /\ MapHas(notifications, c) =>
              \A i \in PendingInstalls(c) :
                  notifications[c].timeoutRef < frameQueue[i].notification.timeoutRef
        /\ (MapHas(notifications, c) /\ PendingInstalls(c) = {}) =>
              notifications[c] = NotificationOf(LastCall(c))

\* Two calls on one channel were made before any frame ran, both installs have
\* been committed, and the mapping holds the second.
BurstCommitted ==
    \E c \in Channels :
        /\ Len(calls) >= 2
        /\ calls[1].channel = c /\ calls[2].channel = c
        /\ 1 \in DOMAIN timers
        /\ PendingInstalls(c) = {}
        /\ MapHas(notifications, c)
        /\ notifications[c].timeoutRef = 2

\* C8: every notification in the mapping has a non-empty message and a timeout
\* that is not negative, whatever the callers passed.
MappingWellFormed ==
    \A c \in DOMAIN notifications :
        notifications[c].message # "" /\ notifications[c].timeout >= 0

\* C9: the mapping changes only in a step that is a frame callback, and a
\* mutation is requested only outside a frame, so that it waits for a frame that
\* starts later; the requesting step itself leaves the mapping alone.
RenderSynchronizedMutation ==
    /\ [][notifications' # notifications =>
            /\ frameBatch > 0
            /\ frameBatch' = frameBatch - 1
            /\ frameQueue' = Tail(frameQueue)
            /\ notifications' = runInAction(notifications, Head(frameQueue))]_vars
    /\ [][Len(frameQueue') > Len(frameQueue) =>
            /\ frameBatch = 0 /\ frameBatch' = 0
            /\ notifications' = notifications]_vars

\* A frame is under way: one of its callbacks has changed the mapping and
\* another is still to run.
MidFrame == frameBatch > 0 /\ notifications # EmptyMap /\ frameQueue # <<>>

\* C10: for every list of subscribed channels, render selects the first channel
\* of the list that is in the mapping, renders at most one notification, that
\* channel's and only if its message is not empty, and renders nothing when no
\* subscribed channel is in the mapping. (Whether render returns or throws is
\* not part of the statement: in either case it renders no other notification.)
RendererSelectsFirstPresent ==
    \A channels \in ChannelLists :
        LET r == Render(channels, notifications)
            hits == {i \in 1..Len(channels) : MapHas(notifications, channels[i])}
        IN /\ hits = {} => (r.channel = NoChannel /\ r.shown = <<>>)
           /\ hits # {} =>
                 /\ r.channel \in Channels
                 /\ \E i \in hits : r.channel = channels[i] /\ \A j \in hits : i <= j
           /\ Len(r.shown) <= 1
           /\ r.shown # <<>> =>
                 /\ MapHas(notifications, r.channel)
                 /\ notifications[r.channel].message # ""
                 /\ r.shown[1] = notifications[r.channel].message

\* Both channels hold a notification, so the order of the list decides.
BothChannelsPresent ==
    /\ MapHas(notifications, HELLO_WORLD)
    /\ MapHas(notifications, ERROR)
    /\ notifications[ERROR].message # ""
    /\ Render(<<ERROR, HELLO_WORLD>>, notifications).channel = ERROR
    /\ Render(<<HELLO_WORLD, ERROR>>, notifications).channel = HELLO_WORLD
    /\ Render(<<helloWorld, ERROR>>, notifications).channel = ERROR

\* C11: the dismissal timer of a call is set timeout + animationDuration after
\* the call, animationDuration being the value of the store's field, the same
\* pad the renderer gives its enter and leave transitions. The field has the
\* one value its initialiser gives it: nothing assigns it. (Stated for timeouts
\* that are not negative.)
SharedPadConstant ==
    \A ref \in DOMAIN timers :
        calls[ref].timeout >= 0 =>
            /\ timers[ref].deadline
                  = calls[ref].at + calls[ref].timeout
                      + TransitionTimeouts(animationDurationField).leave
            /\ timers[ref].deadline
                  = calls[ref].at + calls[ref].timeout
                      + TransitionTimeouts(animationDurationField).enter

\* The dismissal timer of a call with a positive timeout is outstanding.
PaddedTimerOutstanding ==
    \E ref \in DOMAIN timers :
        /\ calls[ref].timeout > 0
        /\ timers[ref].deadline = calls[ref].at + calls[ref].timeout + animationDuration

\* Position i of the frame queue holds the removal requested by timer r1 and
\* position j, behind it, the install of the later call r2 on the same channel:
\* call r2 was made after timer r1 had fired and before its removal committed.
RacedPair(i, j) ==
    /\ i \in 1..Len(frameQueue) /\ j \in 1..Len(frameQueue) /\ i < j
    /\ frameQueue[i].op = "delete"
    /\ frameQueue[j].op = "set"
    /\ frameQueue[j].channel = frameQueue[i].channel
    /\ frameQueue[j].notification.timeoutRef > frameQueue[i].by

\* This step is a setNotification call on a channel whose entry's timer has
\* already fired and whose removal, requested by that timer, is still queued.
RacingCallStep ==
    /\ CallStep
    /\ LET c == calls'[Len(calls')].channel
       IN /\ MapHas(notifications, c)
          /\ notifications[c].timeoutRef \notin DOMAIN timers
          /\ \E i \in 1..Len(frameQueue) :
                frameQueue[i] = DeleteCallback(c, notifications[c].timeoutRef)

\* The racing call clears nothing, adds its own timer, and queues its install
\* behind the stale removal.
RacingCallKeepsTimers ==
    [][RacingCallStep =>
         LET ref == Len(calls')
             c == calls'[ref].channel
         IN /\ DOMAIN timers' = (DOMAIN timers) \cup {ref}
            /\ \A k \in DOMAIN timers : timers'[k] = timers[k]
            /\ timers'[ref].channel = c
            /\ Len(frameQueue') = Len(frameQueue) + 1
            /\ \E i \in 1..Len(frameQueue) :
                  /\ frameQueue'[i] = DeleteCallback(c, notifications[c].timeoutRef)
                  /\ frameQueue'[Len(frameQueue')].op = "set"
                  /\ frameQueue'[Len(frameQueue')].channel = c
                  /\ frameQueue'[Len(frameQueue')].notification.timeoutRef = ref]_vars

\* The stale removal runs first and does not remove the racing call's
\* notification; the install that runs later puts that notification in the mapping.
StaleRemovalSparesInstall ==
    /\ [][(frameBatch > 0 /\ frameBatch' < frameBatch
             /\ \E j \in 1..Len(frameQueue) : RacedPair(1, j))
            => \A j \in 1..Len(frameQueue) :
                  RacedPair(1, j) =>
                      /\ MapGet(notifications, frameQueue[1].channel).timeoutRef
                            < frameQueue[j].notification.timeoutRef
                      /\ frameQueue'[j - 1] = frameQueue[j]]_vars
    /\ [][(frameBatch > 0 /\ frameBatch' < frameBatch /\ Head(frameQueue).op = "set")
            => notifications'[Head(frameQueue).channel]
                   = NotificationOf(Head(frameQueue).notification.timeoutRef)]_vars

\* C12 as stated: a call made after the channel's timer fired and before its
\* removal committed clears nothing, the stale removal commits before the call's
\* install and spares it, and when the frame commits both the call's own timer is
\* still outstanding. (The timer is stated for channels whose callers kept
\* the contract, at the start of the frame that commits both; timers do not
\* change while a frame runs.)
SetRacingFiredDismissal ==
    /\ RacingCallKeepsTimers
    /\ StaleRemovalSparesInstall
    /\ [][\A i \in 1..Len(frameQueue), j \in 1..Len(frameQueue) :
            (/\ frameBatch = 0 /\ frameBatch' > 0
             /\ RacedPair(i, j)
             /\ MapGet(notifications, frameQueue[i].channel).timeoutRef = frameQueue[i].by
             /\ WellFormedCalls(frameQueue[i].channel))
                => frameQueue[j].notification.timeoutRef \in DOMAIN timers']_vars

\* C12, amended: as stated, except that when the frame commits both, the call's
\* own dismissal is still pending: its timer is outstanding or, if that timer
\* fired before the frame ran, its removal is queued behind the install.
SetRacingFiredDismissalPending ==
    /\ RacingCallKeepsTimers
    /\ StaleRemovalSparesInstall
    /\ [](\A i \in 1..Len(frameQueue), j \in 1..Len(frameQueue) :
            (frameBatch > 0 /\ RacedPair(i, j))
                => LET ref == frameQueue[j].notification.timeoutRef
                   IN \/ ref \in DOMAIN timers
                      \/ \E k \in 1..Len(frameQueue) :
                            /\ k > j
                            /\ frameQueue[k] = DeleteCallback(frameQueue[j].channel, ref))

\* A frame is about to commit a stale removal and, behind it, the install of the
\* call that found the channel's fired timer in the mapping.
RacedFrame ==
    /\ frameBatch = Len(frameQueue)
    /\ \E j \in 1..Len(frameQueue) :
          /\ RacedPair(1, j)
          /\ MapGet(notifications, frameQueue[1].channel).timeoutRef = frameQueue[1].by
          /\ frameQueue[j].notification.timeoutRef \in DOMAIN timers

\* The removal requested by the timer of call ref is waiting in the frame queue.
RemovalQueued(ref) ==
    \E k \in 1..Len(frameQueue) : frameQueue[k].op = "delete" /\ frameQueue[k].by = ref

\* C13: a setNotification call, whatever its timeout, leaves its own timer
\* outstanding and removes nothing itself; the install of a call waits ahead of
\* the removal its own timer requests, and when the install is committed that
\* removal has not run yet.
InstallPrecedesOwnRemoval ==
    /\ [][CallStep =>
            /\ Len(calls') \in DOMAIN timers'
            /\ notifications' = notifications
            /\ \A k \in 1..Len(frameQueue') :
                  frameQueue'[k].op = "delete" => frameQueue'[k].by # Len(calls')]_vars
    /\ [](\A i \in 1..Len(frameQueue), j \in 1..Len(frameQueue) :
            (/\ frameQueue[i].op = "set"
             /\ frameQueue[j].op = "delete"
             /\ frameQueue[j].by = frameQueue[i].notification.timeoutRef)
                => i < j)
    /\ [][(frameBatch > 0 /\ frameBatch' < frameBatch /\ Head(frameQueue).op = "set")
            => LET ref == Head(frameQueue).notification.timeoutRef
               IN \/ ref \in DOMAIN timers'
                  \/ \E k \in 1..Len(frameQueue') :
                        frameQueue'[k] = DeleteCallback(Head(frameQueue).channel, ref)]_vars

\* The timer of a call with timeout 0 has fired before any frame ran: its
\* removal waits behind the call's install.
RemovalQueuedBehindOwnInstall ==
    \E i \in 1..Len(frameQueue), j \in 1..Len(frameQueue) :
        /\ i < j
        /\ frameQueue[i].op = "set"
        /\ frameQueue[j].op = "delete"
        /\ frameQueue[j].by = frameQueue[i].notification.timeoutRef
        /\ frameQueue[i].notification.timeout = 0

\* C14: every channel that is in the mapping or has an install waiting has a
\* dismissal still to come after it, an outstanding timer of the channel or a
\* removal queued behind; and a timer goes away without firing only in a
\* setNotification call on its channel, which sets a new timer for that channel.
NoImmortalEntry ==
    /\ [](\A c \in Channels :
            /\ MapHas(notifications, c) =>
                  \/ TimersOf(c) # {}
                  \/ \E k \in 1..Len(frameQueue) :
                        frameQueue[k].op = "delete" /\ frameQueue[k].channel = c
            /\ \A i \in PendingInstalls(c) :
                  \/ TimersOf(c) # {}
                  \/ \E k \in 1..Len(frameQueue) :
                        k > i /\ frameQueue[k].op = "delete" /\ frameQueue[k].channel = c)
    /\ [][\A ref \in DOMAIN timers :
            (/\ ref \notin DOMAIN timers'
             /\ ~\E k \in 1..Len(frameQueue') :
                    frameQueue'[k].op = "delete" /\ frameQueue'[k].by = ref)
                => /\ CallStep
                   /\ calls'[Len(calls')].channel = timers[ref].channel
                   /\ Len(calls') \in DOMAIN timers'
                   /\ timers'[Len(calls')].channel = timers[ref].channel]_vars

\* A channel's entry whose own timer was cleared by a later call: the later
\* call's timer is the dismissal still to come.
SupersededEntryCovered ==
    \E c \in Channels :
        /\ MapHas(notifications, c)
        /\ notifications[c].timeoutRef \notin DOMAIN timers
        /\ ~RemovalQueued(notifications[c].timeoutRef)
        /\ PendingInstalls(c) # {}
        /\ TimersOf(c) # {}

====
